---- MODULE Spec2Model ----
(***************************************************************************)
(* Model of agents_skills.py: the Streamlit chat page that answers         *)
(* questions about TaskRouter agents' skills and queue statistics.         *)
(*                                                                         *)
(* Text is a sequence of tokens.  A token is a word, a separator or the    *)
(* directive "ACTION_SEARCH_SKILLS:", which is kept as one token.          *)
(* Python values are records [t, v]: t is the type tag, v the payload.     *)
(* A call that can raise yields [exc, val].                                *)
(***************************************************************************)
EXTENDS Naturals, Sequences, FiniteSets

VARIABLES
    model,                \* the generator handle is set (GEMINI_API_KEY present)
    client,               \* the routing client is set
    workspace_sid,        \* TWILIO_WORKSPACE_SID is set
    messages,             \* st.session_state.messages
    pc,                   \* position of the script in the turn
    user_input,
    initial_ai_response,
    query,
    found_skills,
    target_queue_name,
    twilio_stats,
    final_response,
    full_prompt,          \* prompt parts of the latest generator invocation
    workers,              \* worker list the routing backend answers with
    calls,                \* functions invoked in this turn, in order
    raised,               \* <<position in calls, outbound call>> of each exception
    backend_requests,     \* requests sent to the routing backend in this turn
    generator_requests,   \* requests sent to the generator in this turn
    turns                 \* turns completed in this session

vars == <<model, client, workspace_sid, messages, pc, user_input,
          initial_ai_response, query, found_skills, target_queue_name,
          twilio_stats, final_response, full_prompt, workers, calls, raised,
          backend_requests, generator_requests, turns>>

-----------------------------------------------------------------------------
(* Bounds *)

MaxTurns == 2
MaxWorkers == 2
MaxInputLen == 5

-----------------------------------------------------------------------------
(* Python values and text *)

PyNone == [t |-> "none", v |-> <<>>]
Str(s) == [t |-> "str", v |-> s]
Dict(d) == [t |-> "dict", v |-> d]

\* Python truthiness: None, '' and {} are false
Truthy(x) == x.t # "none" /\ x.v # <<>>

Return(x) == [exc |-> FALSE, val |-> x]
Raise == [exc |-> TRUE, val |-> PyNone]

DIRECTIVE == "ACTION_SEARCH_SKILLS:"

LowerTok(c) ==
    CASE c = "Jane" -> "jane"
      [] c = "JANE" -> "jane"
      [] c = "J@CO.COM" -> "j@co.com"
      [] c = "Bob" -> "bob"
      [] c = "BUSINESS" -> "business"
      [] c = "Voice" -> "voice"
      [] c = "TS" -> "ts"
      [] OTHER -> c

\* str.lower()
Lower(s) == [i \in 1..Len(s) |-> LowerTok(s[i])]

\* str.startswith(prefix), for a one-token prefix
StartsWith(s, tok) == Len(s) >= 1 /\ s[1] = tok

\* variant: only the first occurrence is removed, as str.replace(tok, "", 1)
Remove_first_only(s, tok) ==
    IF \E i \in 1..Len(s) : s[i] = tok
    THEN LET i == CHOOSE k \in 1..Len(s) :
                     s[k] = tok /\ \A j \in 1..(k - 1) : s[j] # tok
         IN  SubSeq(s, 1, i - 1) \o SubSeq(s, i + 1, Len(s))
    ELSE s

\* str.replace(tok, ""): every occurrence is removed
RECURSIVE Remove(_, _)
Remove(s, tok) ==
    IF s = <<>> THEN <<>>
    ELSE IF Head(s) = tok THEN Remove(Tail(s), tok)
    ELSE <<Head(s)>> \o Remove(Tail(s), tok)

RECURSIVE LStrip(_)
LStrip(s) ==
    IF s # <<>> /\ Head(s) = " " THEN LStrip(Tail(s)) ELSE s

RECURSIVE RStrip(_)
RStrip(s) ==
    IF s # <<>> /\ s[Len(s)] = " " THEN RStrip(SubSeq(s, 1, Len(s) - 1)) ELSE s

\* str.strip()
Strip(s) == RStrip(LStrip(s))

\* sub in s
Contains(s, sub) ==
    \E i \in 0..(Len(s) - Len(sub)) : SubSeq(s, i + 1, i + Len(sub)) = sub

\* ', '.join(xs)
RECURSIVE Join(_)
Join(xs) ==
    IF xs = <<>> THEN <<>>
    ELSE IF Len(xs) = 1 THEN <<xs[1]>>
    ELSE <<xs[1], ", ">> \o Join(Tail(xs))

\* A dict is a record of optional entries [has, v]
Absent == [has |-> FALSE, v |-> <<>>]
Some(x) == [has |-> TRUE, v |-> x]
EmptyDict == [skills |-> Absent]

\* dict.get(key, default)
DictGet(d, key, default) == IF d[key].has THEN d[key].v ELSE default

\* x in xs, for a list xs
In(x, xs) == \E i \in 1..Len(xs) : xs[i] = x

\* json.loads(text): raises on text that is not JSON
json_loads(text) == IF text.valid THEN Return(text.obj) ELSE Raise

-----------------------------------------------------------------------------
(* Routing-backend lookups *)

\* variant: the role is not looked at
RECURSIVE scan_workers_any_role(_, _)
scan_workers_any_role(q, ws) ==
    IF ws = <<>> THEN Return(PyNone)
    ELSE LET worker == Head(ws)
             parsed == json_loads(worker.attributes)
         IN  IF parsed.exc THEN Raise
             ELSE LET attributes == parsed.val
                      email == DictGet(attributes, "email", <<>>)
                  IN  IF Lower(worker.friendly_name) = Lower(q)
                         \/ Lower(email) = Lower(q)
                      THEN LET worker_skills ==
                                 DictGet(DictGet(attributes, "routing", EmptyDict),
                                         "skills", <<>>)
                           IN  Return(IF worker_skills # <<>>
                                      THEN Str(Join(worker_skills))
                                      ELSE Str(<<"None">>))
                      ELSE scan_workers_any_role(q, Tail(ws))

\* variant: an agent without skills gives None, not 'None'
RECURSIVE scan_workers_empty_is_none(_, _)
scan_workers_empty_is_none(q, ws) ==
    IF ws = <<>> THEN Return(PyNone)
    ELSE LET worker == Head(ws)
             parsed == json_loads(worker.attributes)
         IN  IF parsed.exc THEN Raise
             ELSE LET attributes == parsed.val
                      email == DictGet(attributes, "email", <<>>)
                  IN  IF Lower(worker.friendly_name) = Lower(q)
                         \/ Lower(email) = Lower(q)
                      THEN IF In("Agent", DictGet(attributes, "roles", <<>>))
                           THEN LET worker_skills ==
                                      DictGet(DictGet(attributes, "routing", EmptyDict),
                                              "skills", <<>>)
                                IN  Return(IF worker_skills # <<>>
                                           THEN Str(Join(worker_skills))
                                           ELSE PyNone)
                           ELSE scan_workers_empty_is_none(q, Tail(ws))
                      ELSE scan_workers_empty_is_none(q, Tail(ws))

\* for worker in workers: ... (the loop body of find_agent_skills)
RECURSIVE scan_workers(_, _)
scan_workers(q, ws) ==
    IF ws = <<>> THEN Return(PyNone)
    ELSE LET worker == Head(ws)
             parsed == json_loads(worker.attributes)
         IN  IF parsed.exc THEN Raise
             ELSE LET attributes == parsed.val
                      email == DictGet(attributes, "email", <<>>)
                  IN  IF Lower(worker.friendly_name) = Lower(q)
                         \/ Lower(email) = Lower(q)
                      THEN IF In("Agent", DictGet(attributes, "roles", <<>>))
                           THEN LET worker_skills ==
                                      DictGet(DictGet(attributes, "routing", EmptyDict),
                                              "skills", <<>>)
                                IN  Return(IF worker_skills # <<>>
                                           THEN Str(Join(worker_skills))
                                           ELSE Str(<<"None">>))
                           ELSE scan_workers(q, Tail(ws))
                      ELSE scan_workers(q, Tail(ws))

\* backend: [raises, workers], the answer of workers.list()
find_agent_skills(q, cl, wsid, backend) ==
    IF ~cl \/ ~wsid THEN Return(PyNone)
    ELSE LET body == IF backend.raises THEN Raise
                     ELSE scan_workers(q, backend.workers)
         IN  IF body.exc THEN Return(Str(<<"Error">>)) ELSE body

\* the try block of get_realtime_queue_stats
\* backend: [list_raises, task_queues, fetch_raises, realtime]
RECURSIVE scan_queues(_, _, _)
scan_queues(target_skill_name, qs, backend) ==
    IF qs = <<>> THEN Return(PyNone)
    ELSE IF Head(qs).friendly_name = target_skill_name
         THEN IF backend.fetch_raises THEN Raise
              ELSE Return(Dict(backend.realtime))
         ELSE scan_queues(target_skill_name, Tail(qs), backend)

get_realtime_queue_stats_try(target_skill_name, backend) ==
    IF backend.list_raises THEN Raise
    ELSE scan_queues(target_skill_name, backend.task_queues, backend)

\* variant: no try/except around the backend calls
get_realtime_queue_stats_uncaught(cl, wsid, target_skill_name, backend) ==
    IF ~cl \/ ~wsid THEN Return(PyNone)
    ELSE get_realtime_queue_stats_try(target_skill_name, backend)

get_realtime_queue_stats(cl, wsid, target_skill_name, backend) ==
    IF ~cl \/ ~wsid THEN Return(PyNone)
    ELSE LET body == get_realtime_queue_stats_try(target_skill_name, backend)
         IN  IF body.exc THEN Return(PyNone) ELSE body

\* requests get_realtime_queue_stats sends: the list, then one fetch on a match
queue_stats_requests(cl, wsid, target_skill_name, backend) ==
    IF ~cl \/ ~wsid THEN 0
    ELSE IF backend.list_raises THEN 1
    ELSE IF \E i \in 1..Len(backend.task_queues) :
                backend.task_queues[i].friendly_name = target_skill_name
         THEN 2
         ELSE 1

\* requests find_agent_skills sends: the list
agent_skills_requests(cl, wsid) == IF ~cl \/ ~wsid THEN 0 ELSE 1

-----------------------------------------------------------------------------
(* Response generator *)

UNAVAILABLE == <<"The AI model is unavailable due to a configuration error.">>

RoleTag(turn) == IF turn.role = "user" THEN "User: " ELSE "Assistant: "

\* prompt_parts of generate_ai_response, one element per part
prompt_parts(history, new_message, twilio_data, agent_skills_data) ==
    <<  <<"You are a real-time analyst">>,
        <<"Use the conversation context">>,
        <<"you MUST respond with 'ACTION_SEARCH_SKILLS: [Agent Name or Email]'">>,
        IF Truthy(twilio_data)
            THEN <<"Available Twilio data: ">> \o twilio_data.v ELSE <<>>,
        IF Truthy(agent_skills_data)
            THEN <<"Available Agent Skills data: ">> \o agent_skills_data.v ELSE <<>>,
        <<"Conversation:">>  >>
    \o [i \in 1..Len(history) |-> <<RoleTag(history[i])>> \o history[i].content]
    \o << <<"User: ">> \o new_message, <<"Assistant:">> >>

\* variant: no check of the handle; generate_content on None raises
generate_ai_response_unguarded(mdl, gen) ==
    LET body == IF ~mdl \/ gen.raises THEN Raise ELSE Return(gen.text)
    IN  IF body.exc
        THEN Return(<<"Error generating AI response: ", "e">>)
        ELSE body

\* gen: [raises, text], the answer of model.generate_content
generate_ai_response(mdl, gen) ==
    IF ~mdl THEN Return(UNAVAILABLE)
    ELSE LET body == IF gen.raises THEN Raise ELSE Return(gen.text)
         IN  IF body.exc
             THEN Return(<<"Error generating AI response: ", "e">>)
             ELSE body

generator_requests_of(mdl) == IF mdl THEN 1 ELSE 0

-----------------------------------------------------------------------------
(* Queue keyword table *)

queue_map ==
    << << <<"ts", " ", "voice", " ", "business">>, <<"Voice Total Service Business">> >>,
       << <<"ts", " ", "voice", " ", "consumer">>, <<"Voice Total Service Consumer">> >>,
       << <<"ts", " ", "business">>, <<"Total Service Business">> >>,
       << <<"ts", " ", "consumer">>, <<"Total Service Consumer">> >>,
       << <<"consumer", " ", "voice">>, <<"Voice Global Consumer Primary">> >>,
       << <<"consumer", " ", "chats">>, <<"Chat Global Consumer Primary">> >>,
       << <<"business", " ", "voice">>, <<"Voice Global Business">> >>,
       << <<"business", " ", "chats">>, <<"Chat Global Business">> >>,
       << <<"portuguese", " ", "primary">>, <<"Language_Pt">> >>,
       << <<"consumer", " ", "emails", " ", "hrsa">>, <<"Bucket_HRSA">> >>,
       << <<"consumer", " ", "emails", " ", "svc">>, <<"Bucket_SVC">> >>,
       << <<"primary", " ", "business">>, <<"Profile_Business">> >> >>

\* variant: no break, the last matching key wins
RECURSIVE resolve_queue_last_match(_, _)
resolve_queue_last_match(qm, input) ==
    IF qm = <<>> THEN PyNone
    ELSE LET later == resolve_queue_last_match(Tail(qm), input)
         IN  IF later # PyNone THEN later
             ELSE IF Contains(Lower(input), Head(qm)[1]) THEN Str(Head(qm)[2])
             ELSE PyNone

\* for keyword, queue_name in queue_map.items(): ... break
RECURSIVE resolve_queue(_, _)
resolve_queue(qm, input) ==
    IF qm = <<>> THEN PyNone
    ELSE IF Contains(Lower(input), Head(qm)[1]) THEN Str(Head(qm)[2])
    ELSE resolve_queue(Tail(qm), input)

-----------------------------------------------------------------------------
(* What the environment can answer *)

\* texts the generator can produce
GenTexts ==
    { <<"ok">>,
      <<DIRECTIVE, " ", "JANE", " ">>,
      <<DIRECTIVE, " ", "j@co.com", " ", DIRECTIVE>>,
      <<DIRECTIVE>> }

GeneratorAnswers ==
    {[raises |-> TRUE, text |-> <<>>]}
    \cup {[raises |-> FALSE, text |-> x] : x \in GenTexts}

\* a worker's attributes text: a JSON object with optional keys, or no JSON
Attrs(email, roles, skills) ==
    [valid |-> TRUE,
     obj |-> [email |-> email,
              roles |-> roles,
              routing |-> [has |-> skills.has, v |-> [skills |-> skills]]]]

BadAttrs == [valid |-> FALSE, obj |-> Attrs(Absent, Absent, Absent).obj]

AttrTexts ==
    {BadAttrs}
    \cup { Attrs(e, r, s) :
             e \in {Absent, Some(<<"J@CO.COM">>)},
             r \in {Absent, Some(<<"Agent">>)},
             s \in {Absent, Some(<<>>), Some(<<"billing">>),
                    Some(<<"voice", "chat">>)} }

Workers ==
    [friendly_name : {<<"Jane">>, <<"Bob">>}, attributes : AttrTexts]

SeqsUpTo(S, n) == UNION {[1..k -> S] : k \in 0..n}

WorkerLists == SeqsUpTo(Workers, MaxWorkers)

Queries == {<<>>, <<"jane">>, <<"j@co.com">>, <<"BOB">>, <<"zed">>}

\* the workers the backend holds during a session
SessionWorkers ==
    { [friendly_name |-> <<"Jane">>,
       attributes |-> Attrs(Some(<<"J@CO.COM">>), Some(<<"Supervisor", "Agent">>),
                            Some(<<"voice", "chat">>))],
      [friendly_name |-> <<"Jane">>,
       attributes |-> Attrs(Absent, Some(<<"Supervisor">>), Some(<<"billing">>))],
      [friendly_name |-> <<"Jane">>,
       attributes |-> Attrs(Absent, Some(<<"Supervisor", "Agent">>), Absent)],
      [friendly_name |-> <<"Bob">>, attributes |-> BadAttrs] }

WorkerAnswers ==
    {[raises |-> TRUE, workers |-> <<>>]}
    \cup {[raises |-> FALSE, workers |-> w] : w \in SeqsUpTo(SessionWorkers, MaxWorkers)}

Queue(name) == [friendly_name |-> name, sid |-> name]

QueueAnswers ==
    {[list_raises |-> TRUE, task_queues |-> <<>>, fetch_raises |-> FALSE,
      realtime |-> <<>>]}
    \cup [list_raises : {FALSE},
          task_queues : { <<>>,
                          <<Queue(<<"Voice Global Business">>)>>,
                          <<Queue(<<"Total Service Business">>),
                            Queue(<<"Voice Global Business">>)>> },
          fetch_raises : BOOLEAN,
          realtime : {<<>>, <<"tasks: 3">>}]

\* what the user can type in a session; the empty input is no submission
SessionInputs ==
    { <<>>,
      <<"skills", " ", "for", " ", "Jane">>,
      <<"stats", " ", "for", " ", "BUSINESS", " ", "voice">>,
      <<"ts", " ", "business", " ", "voice">> }

InputTokens == {"ts", "voice", "business", "consumer", " ", "BUSINESS"}

Inputs == SeqsUpTo(InputTokens, MaxInputLen)

\* client is set only when all three secrets are
Configs ==
    {c \in [model : BOOLEAN, client : BOOLEAN, workspace_sid : BOOLEAN] :
        c.client => c.workspace_sid}

-----------------------------------------------------------------------------
(* The script: one rerun per submission *)

NoTurnLocals ==
    /\ initial_ai_response = <<>>
    /\ query = <<>>
    /\ found_skills = PyNone
    /\ target_queue_name = PyNone
    /\ twilio_stats = PyNone
    /\ final_response = <<>>
    /\ full_prompt = <<>>
    /\ calls = <<>>
    /\ raised = <<>>
    /\ backend_requests = 0
    /\ generator_requests = 0

Init ==
    /\ \E c \in Configs :
          /\ model = c.model
          /\ client = c.client
          /\ workspace_sid = c.workspace_sid
    /\ messages = <<>>
    /\ pc = "idle"
    /\ user_input = <<>>
    /\ workers = <<>>
    /\ turns = 0
    /\ NoTurnLocals

\* lines 127-138: a non-empty submission starts the turn
Submit(inp) ==
    /\ pc = "idle"
    /\ turns < MaxTurns
    /\ inp # <<>>
    /\ user_input' = inp
    /\ messages' = Append(messages, [role |-> "user", content |-> inp])
    /\ pc' = "generate"
    /\ initial_ai_response' = <<>>
    /\ query' = <<>>
    /\ found_skills' = PyNone
    /\ target_queue_name' = PyNone
    /\ twilio_stats' = PyNone
    /\ final_response' = <<>>
    /\ full_prompt' = <<>>
    /\ calls' = <<>>
    /\ raised' = <<>>
    /\ backend_requests' = 0
    /\ generator_requests' = 0
    /\ UNCHANGED <<model, client, workspace_sid, workers, turns>>

\* a call of generate_ai_response: what it leaves behind besides its value
Generated(twilio_data, agent_skills_data, gen) ==
    /\ calls' = Append(calls, "generate_ai_response")
    /\ full_prompt' = IF model
                      THEN prompt_parts(messages, user_input, twilio_data,
                                        agent_skills_data)
                      ELSE full_prompt
    /\ generator_requests' = generator_requests + generator_requests_of(model)
    /\ raised' = IF model /\ gen.raises
                 THEN Append(raised, <<Len(calls) + 1, "generate_content">>) ELSE raised

\* line 140
FirstGenerate(gen) ==
    /\ pc = "generate"
    /\ LET r == generate_ai_response(model, gen)
       IN  IF r.exc
           THEN pc' = "crashed" /\ UNCHANGED initial_ai_response
           ELSE pc' = "decide" /\ initial_ai_response' = r.val
    /\ Generated(PyNone, PyNone, gen)
    /\ UNCHANGED <<model, client, workspace_sid, messages, user_input, query,
                   found_skills, target_queue_name, twilio_stats,
                   final_response, workers, backend_requests, turns>>

\* lines 144-145 and 157-185: which branch the turn takes
Decide ==
    /\ pc = "decide"
    /\ IF StartsWith(initial_ai_response, DIRECTIVE) /\ client /\ workspace_sid
       THEN /\ query' = Strip(Remove(initial_ai_response, DIRECTIVE))
            /\ pc' = "find_agent_skills"
            /\ UNCHANGED <<target_queue_name, final_response>>
       ELSE LET target == resolve_queue(queue_map, user_input)
            IN  /\ target_queue_name' = target
                /\ IF Truthy(target) /\ client /\ workspace_sid
                   THEN pc' = "get_realtime_queue_stats"
                        /\ UNCHANGED final_response
                   ELSE pc' = "display"
                        /\ final_response' = initial_ai_response
                /\ UNCHANGED query
    /\ UNCHANGED <<model, client, workspace_sid, messages, user_input,
                   initial_ai_response, found_skills, twilio_stats,
                   full_prompt, workers, calls, raised, backend_requests,
                   generator_requests, turns>>

NotFoundReply(q) == <<"Agent '">> \o q \o <<"' not found or no skills available.">>

\* variant: a lookup that finds nothing falls through to the queue branch
SkillLookup_falls_through(backend) ==
    /\ pc = "find_agent_skills"
    /\ LET r == find_agent_skills(query, client, workspace_sid, backend)
           target == resolve_queue(queue_map, user_input)
       IN  /\ found_skills' = r.val
           /\ IF r.val # PyNone
              THEN pc' = "generate_skills"
                   /\ UNCHANGED <<final_response, target_queue_name>>
              ELSE /\ target_queue_name' = target
                   /\ IF Truthy(target)
                      THEN pc' = "get_realtime_queue_stats"
                           /\ UNCHANGED final_response
                      ELSE pc' = "display"
                           /\ final_response' = NotFoundReply(query)
    /\ calls' = Append(calls, "find_agent_skills")
    /\ backend_requests' =
          backend_requests + agent_skills_requests(client, workspace_sid)
    /\ raised' = IF backend.raises \/ scan_workers(query, backend.workers).exc
                 THEN Append(raised, <<Len(calls) + 1, "workers.list">>)
                 ELSE raised
    /\ UNCHANGED <<model, client, workspace_sid, messages, user_input,
                   initial_ai_response, query, twilio_stats,
                   full_prompt, workers, generator_requests, turns>>

\* lines 146-148 and 153-154
SkillLookup(backend) ==
    /\ pc = "find_agent_skills"
    /\ LET r == find_agent_skills(query, client, workspace_sid, backend)
       IN  IF r.exc
           THEN pc' = "crashed" /\ UNCHANGED <<found_skills, final_response>>
           ELSE /\ found_skills' = r.val
                /\ IF r.val # PyNone
                   THEN pc' = "generate_skills" /\ UNCHANGED final_response
                   ELSE pc' = "display"
                        /\ final_response' = NotFoundReply(query)
    /\ calls' = Append(calls, "find_agent_skills")
    /\ backend_requests' =
          backend_requests + agent_skills_requests(client, workspace_sid)
    /\ raised' = IF ~(client /\ workspace_sid) THEN raised
                 ELSE IF backend.raises THEN Append(raised, <<Len(calls) + 1, "workers.list">>)
                 ELSE IF scan_workers(query, backend.workers).exc
                      THEN Append(raised, <<Len(calls) + 1, "json.loads">>)
                 ELSE raised
    /\ UNCHANGED <<model, client, workspace_sid, messages, user_input,
                   initial_ai_response, query, target_queue_name, twilio_stats,
                   full_prompt, workers, generator_requests, turns>>

\* line 150
data_for_ai(q, skills) ==
    <<"The skills for '">> \o q \o <<"' are: ">> \o skills.v

\* lines 150-152
GenerateWithSkills(gen) ==
    /\ pc = "generate_skills"
    /\ LET r == generate_ai_response(model, gen)
       IN  IF r.exc
           THEN pc' = "crashed" /\ UNCHANGED final_response
           ELSE pc' = "display" /\ final_response' = r.val
    /\ Generated(PyNone, Str(data_for_ai(query, found_skills)), gen)
    /\ UNCHANGED <<model, client, workspace_sid, messages, user_input,
                   initial_ai_response, query, found_skills, target_queue_name,
                   twilio_stats, workers, backend_requests, turns>>

\* line 180
StatsLookup(backend) ==
    /\ pc = "get_realtime_queue_stats"
    /\ LET r == get_realtime_queue_stats(client, workspace_sid,
                                         target_queue_name.v, backend)
       IN  IF r.exc
           THEN pc' = "crashed" /\ UNCHANGED twilio_stats
           ELSE pc' = "generate_stats" /\ twilio_stats' = r.val
    /\ calls' = Append(calls, "get_realtime_queue_stats")
    /\ backend_requests' =
          backend_requests
          + queue_stats_requests(client, workspace_sid, target_queue_name.v, backend)
    /\ raised' = IF ~(client /\ workspace_sid) THEN raised
                 ELSE IF backend.list_raises
                      THEN Append(raised, <<Len(calls) + 1, "task_queues.list">>)
                 ELSE IF get_realtime_queue_stats_try(target_queue_name.v, backend).exc
                      THEN Append(raised, <<Len(calls) + 1, "statistics.fetch">>)
                 ELSE raised
    /\ UNCHANGED <<model, client, workspace_sid, messages, user_input,
                   initial_ai_response, query, found_skills, target_queue_name,
                   final_response, full_prompt, workers, generator_requests,
                   turns>>

\* line 182
GenerateWithStats(gen) ==
    /\ pc = "generate_stats"
    /\ LET r == generate_ai_response(model, gen)
       IN  IF r.exc
           THEN pc' = "crashed" /\ UNCHANGED final_response
           ELSE pc' = "display" /\ final_response' = r.val
    /\ Generated(twilio_stats, PyNone, gen)
    /\ UNCHANGED <<model, client, workspace_sid, messages, user_input,
                   initial_ai_response, query, found_skills, target_queue_name,
                   twilio_stats, workers, backend_requests, turns>>

\* variant: the not-found reply is displayed but not kept
Display_drops_not_found ==
    /\ pc = "display"
    /\ messages' = IF In("find_agent_skills", calls) /\ found_skills = PyNone
                   THEN messages
                   ELSE Append(messages, [role |-> "assistant",
                                          content |-> final_response])
    /\ calls' = Append(calls, "display")
    /\ turns' = turns + 1
    /\ pc' = "idle"
    /\ UNCHANGED <<model, client, workspace_sid, user_input,
                   initial_ai_response, query, found_skills, target_queue_name,
                   twilio_stats, final_response, full_prompt, workers, raised,
                   backend_requests, generator_requests>>

\* lines 188-193
Display ==
    /\ pc = "display"
    /\ messages' = Append(messages, [role |-> "assistant",
                                     content |-> final_response])
    /\ calls' = Append(calls, "display")
    /\ turns' = turns + 1
    /\ pc' = "idle"
    /\ UNCHANGED <<model, client, workspace_sid, user_input,
                   initial_ai_response, query, found_skills, target_queue_name,
                   twilio_stats, final_response, full_prompt, workers, raised,
                   backend_requests, generator_requests>>

Next ==
    \/ \E inp \in SessionInputs : Submit(inp)
    \/ \E gen \in GeneratorAnswers : FirstGenerate(gen)
    \/ Decide
    \/ \E backend \in WorkerAnswers : SkillLookup(backend)
    \/ \E gen \in GeneratorAnswers : GenerateWithSkills(gen)
    \/ \E backend \in QueueAnswers : StatsLookup(backend)
    \/ \E gen \in GeneratorAnswers : GenerateWithStats(gen)
    \/ Display

Spec == Init /\ [][Next]_vars

-----------------------------------------------------------------------------
(* find_agent_skills alone: the turn has reached line 146 with some query,  *)
(* and the backend holds some worker list                                   *)

AtCall(inp, reply) ==
    /\ model = TRUE
    /\ user_input = inp
    /\ messages = <<[role |-> "user", content |-> inp]>>
    /\ initial_ai_response = reply
    /\ found_skills = PyNone
    /\ target_queue_name = PyNone
    /\ twilio_stats = PyNone
    /\ final_response = <<>>
    /\ full_prompt = prompt_parts(messages, inp, PyNone, PyNone)
    /\ calls = <<"generate_ai_response">>
    /\ raised = <<>>
    /\ backend_requests = 0
    /\ generator_requests = 1
    /\ turns = 0

InitLookup ==
    /\ client = TRUE
    /\ workspace_sid = TRUE
    /\ pc = "find_agent_skills"
    /\ workers \in WorkerLists
    /\ query \in Queries
    /\ AtCall(<<"skills", " ", "for", " ", "Jane">>, <<DIRECTIVE, " ">> \o query)

NextLookup ==
    \E r \in BOOLEAN : SkillLookup([raises |-> r, workers |-> workers])

SpecLookup == InitLookup /\ [][NextLookup]_vars

-----------------------------------------------------------------------------
(* The branch decision alone: the turn has reached line 144 with some input *)

InitQueue ==
    /\ client \in BOOLEAN
    /\ workspace_sid = TRUE
    /\ pc = "decide"
    /\ workers = <<>>
    /\ query = <<>>
    /\ \E inp \in Inputs \ {<<>>} :
       \E reply \in {<<"ok">>, <<DIRECTIVE, " ", "JANE", " ">>} :
          AtCall(inp, reply)

NextQueue == Decide

SpecQueue == InitQueue /\ [][NextQueue]_vars

-----------------------------------------------------------------------------
(* Properties of a turn *)

IsPrefix(a, b) == Len(a) <= Len(b) /\ SubSeq(b, 1, Len(a)) = a

\* the turn has run to its reply (shown or about to be)
ChainDone == pc = "display" \/ (pc = "idle" /\ turns > 0)
TurnDone == pc = "idle" /\ turns > 0

\* the outbound call `name` raised in this turn
Raised(name) == \E i \in 1..Len(raised) : raised[i][2] = name

Count(x, xs) == Cardinality({i \in 1..Len(xs) : xs[i] = x})

AssistantReplies == {i \in 1..Len(messages) : messages[i].role = "assistant"}

\* C1: no reply that is displayed and appended to the transcript starts with
\* the directive "ACTION_SEARCH_SKILLS:"
C1_NoRawDirectiveShown ==
    \A i \in AssistantReplies : ~StartsWith(messages[i].content, DIRECTIVE)

\* the agent-skills part of the latest prompt carries the lookup result
SkillsInjected ==
    /\ Len(full_prompt) >= 5
    /\ full_prompt[5] = <<"Available Agent Skills data: ", "The skills for '">>
                        \o query \o <<"' are: ">> \o found_skills.v

\* C2 as stated, in a session whose routing client is configured: a directive
\* reply always leads to the skill lookup with the trimmed text after the
\* prefix, and then, whatever the lookup's outcome, to a second generator call
\* carrying the result, before the reply
C2_DirectiveAlwaysLooksUpAndRegenerates ==
    (ChainDone /\ StartsWith(initial_ai_response, DIRECTIVE)
     /\ client /\ workspace_sid) =>
        /\ IsPrefix(<<"generate_ai_response", "find_agent_skills",
                      "generate_ai_response">>, calls)
        /\ query = Strip(Tail(initial_ai_response))
        /\ SkillsInjected

\* s with its leading and trailing blanks cut off is q
IsTrimOf(q, s) ==
    \E i \in 1..(Len(s) + 1) : \E j \in 0..Len(s) :
        /\ q = SubSeq(s, i, j)
        /\ \A k \in 1..Len(s) : (k < i \/ k > j) => s[k] = " "
        /\ q # <<>> => (q[1] # " " /\ q[Len(q)] # " ")

NotDirective(c) == c # DIRECTIVE

\* C2 amended: with the routing client and workspace configured, a directive
\* reply leads to the skill lookup, the query being the reply with every
\* occurrence of the directive removed and then trimmed; when the lookup
\* returns skills, "None" or "Error" a second generator call carries the
\* result before the reply, and when it returns nothing no second call is made
\* and the reply is the fixed not-found text; without the client no lookup is
\* made and nothing is injected.  No reply is shown before the chain is done.
C2_DirectiveLookup ==
    /\ (ChainDone /\ StartsWith(initial_ai_response, DIRECTIVE)) =>
          IF client /\ workspace_sid
          THEN /\ IsPrefix(<<"generate_ai_response", "find_agent_skills">>, calls)
               /\ IsTrimOf(query, SelectSeq(initial_ai_response, NotDirective))
               /\ IF found_skills # PyNone
                  THEN /\ IsPrefix(<<"generate_ai_response", "find_agent_skills",
                                     "generate_ai_response">>, calls)
                       /\ SkillsInjected
                  ELSE /\ Count("generate_ai_response", calls) = 1
                       /\ final_response = NotFoundReply(query)
          ELSE /\ ~In("find_agent_skills", calls)
               /\ ~SkillsInjected
    /\ pc \notin {"idle", "crashed"} =>
          /\ messages[Len(messages)].role = "user"
          /\ ~In("display", calls)

\* a directive was followed by a lookup that found skills and a second call
C2_Witness ==
    /\ TurnDone
    /\ StartsWith(initial_ai_response, DIRECTIVE)
    /\ found_skills = Str(<<"voice", ", ", "chat">>)
    /\ SkillsInjected
    /\ Count(DIRECTIVE, initial_ai_response) = 2

\* the transcript alternates user, assistant; 2n entries after n turns
C3_Shape ==
    /\ \A i \in 1..Len(messages) :
          messages[i].role = IF i % 2 = 1 THEN "user" ELSE "assistant"
    /\ pc = "idle" => Len(messages) = 2 * turns
    /\ pc \notin {"idle", "crashed"} =>
          /\ Len(messages) = 2 * turns + 1
          /\ messages[Len(messages)].content = user_input

\* a step leaves the entries already there alone and adds at most one
C3_Step ==
    /\ IsPrefix(messages, messages')
    /\ Len(messages') <= Len(messages) + 1
    /\ (pc # "idle" /\ pc' = "idle") =>
          /\ turns' = turns + 1
          /\ messages' = Append(messages, [role |-> "assistant",
                                           content |-> final_response])
    /\ ~(pc # "idle" /\ pc' = "idle") => turns' = turns

\* C3: the transcript only grows, entries already in it never change, and
\* every processed turn appends the user entry and then the final reply on
\* every branch: 2n alternating entries after n turns
C3_TranscriptAppendOnly == []C3_Shape /\ [][C3_Step]_vars

\* two turns done, the second one on the not-found branch
C3_Witness ==
    /\ TurnDone
    /\ Len(messages) = 4
    /\ In("find_agent_skills", calls)
    /\ found_skills = PyNone

\* C4: an exception of the routing backend or of the generator is turned into
\* a value where it is raised and never leaves the turn, and a turn ends with
\* exactly one reply displayed
C4_ExceptionsCaught ==
    /\ pc # "crashed"
    /\ Raised("workers.list") \/ Raised("json.loads") =>
          found_skills = Str(<<"Error">>)
    /\ Raised("task_queues.list") \/ Raised("statistics.fetch") =>
          twilio_stats = PyNone
    /\ In(<<1, "generate_content">>, raised) =>
          initial_ai_response = <<"Error generating AI response: ", "e">>
    /\ In(<<3, "generate_content">>, raised) =>
          final_response = <<"Error generating AI response: ", "e">>
    /\ TurnDone =>
          /\ Count("display", calls) = 1
          /\ messages[Len(messages)] = [role |-> "assistant",
                                        content |-> final_response]

\* a turn in which the backend and then the generator raised, and that ended
C4_Witness ==
    /\ TurnDone
    /\ raised = << <<2, "statistics.fetch">>, <<3, "generate_content">> >>

\* C7: in both lookups an exception of the backend gives a result the caller
\* can tell from the lookup's not-found result (None)
C7_ErrorDistinctFromNotFound ==
    /\ Raised("workers.list") \/ Raised("json.loads") =>
          found_skills # PyNone
    /\ Raised("task_queues.list") \/ Raised("statistics.fetch") =>
          twilio_stats # PyNone

\* C9: without the routing secrets no request reaches the backend, a lookup
\* returns None without raising and the turn still ends with a reply; without
\* the generator key no request reaches the generator and every reply is the
\* fixed unavailable text
C9_MissingConfiguration ==
    /\ pc # "crashed"
    /\ pc \notin {"idle", "crashed"} => ENABLED Next
    /\ ~(client /\ workspace_sid) =>
          /\ backend_requests = 0
          /\ \A i \in 1..Len(raised) : raised[i][2] = "generate_content"
          /\ \A q \in Queries : \A b \in WorkerAnswers :
                find_agent_skills(q, client, workspace_sid, b) = Return(PyNone)
          /\ \A i \in 1..Len(queue_map) : \A b \in QueueAnswers :
                get_realtime_queue_stats(client, workspace_sid, queue_map[i][2], b)
                    = Return(PyNone)
    /\ ~model =>
          /\ generator_requests = 0
          /\ full_prompt = <<>>
          /\ \A i \in AssistantReplies : messages[i].content = UNAVAILABLE
          /\ ChainDone => final_response = UNAVAILABLE

\* neither subsystem is configured, the input names a queue, the turn ended
C9_Witness ==
    /\ ~client
    /\ ~model
    /\ TurnDone
    /\ Truthy(target_queue_name)
    /\ messages[Len(messages)].content = UNAVAILABLE

Chains ==
    { <<"generate_ai_response", "display">>,
      <<"generate_ai_response", "find_agent_skills", "display">>,
      <<"generate_ai_response", "find_agent_skills", "generate_ai_response",
        "display">>,
      <<"generate_ai_response", "get_realtime_queue_stats",
        "generate_ai_response", "display">> }

\* C10: a turn is one chain: the first generator call, then at most one
\* lookup (skills or queue statistics, never both), then at most one more
\* generator call, then the reply
C10_OneSequentialChain ==
    /\ \E ch \in Chains : IsPrefix(calls, ch)
    /\ pc \notin {"idle", "generate", "crashed"} => calls # <<>>
    /\ TurnDone => calls \in Chains
    /\ Count("find_agent_skills", calls) + Count("get_realtime_queue_stats", calls) <= 1
    /\ backend_requests <= 2
    /\ In("find_agent_skills", calls) => target_queue_name = PyNone

\* the reply was a directive and the input names a queue: only the skill
\* lookup ran
C10_Witness ==
    /\ TurnDone
    /\ calls = <<"generate_ai_response", "find_agent_skills",
                 "generate_ai_response", "display">>
    /\ Truthy(resolve_queue(queue_map, user_input))

-----------------------------------------------------------------------------
(* Properties of find_agent_skills, over the worker list the backend holds *)

LookupDone == pc \in {"generate_skills", "display"} /\ In("find_agent_skills", calls)

Min(S) == CHOOSE x \in S : \A y \in S : x <= y

EqNoCase(a, b) == Lower(a) = Lower(b)

Decodes(w) == w.attributes.valid

\* the email of a worker whose attributes decode; '' when it has none
EmailOf(w) ==
    IF w.attributes.obj.email.has THEN w.attributes.obj.email.v ELSE <<>>

NameOrEmailEquals(w, q) ==
    \/ EqNoCase(w.friendly_name, q)
    \/ Decodes(w) /\ EqNoCase(EmailOf(w), q)

HasAgentRole(w) ==
    /\ Decodes(w)
    /\ w.attributes.obj.roles.has
    /\ \E i \in 1..Len(w.attributes.obj.roles.v) :
          w.attributes.obj.roles.v[i] = "Agent"

SkillsOf(w) ==
    IF w.attributes.obj.routing.has /\ w.attributes.obj.routing.v.skills.has
    THEN w.attributes.obj.routing.v.skills.v
    ELSE <<>>

SkillsText(w) ==
    IF SkillsOf(w) = <<>> THEN Str(<<"None">>) ELSE Str(Join(SkillsOf(w)))

MatchIdx == {i \in 1..Len(workers) : NameOrEmailEquals(workers[i], query)}
AgentMatchIdx == {i \in MatchIdx : HasAgentRole(workers[i])}

\* a worker whose attributes do not decode is scanned before the scan ends
UndecodableScanned ==
    \E j \in 1..Len(workers) :
        /\ ~Decodes(workers[j])
        /\ AgentMatchIdx # {} => j < Min(AgentMatchIdx)

-----------------------------------------------------------------------------
(* Properties of the queue keyword resolution *)

KeyIdx == {i \in 1..Len(queue_map) : Contains(Lower(user_input), queue_map[i][1])}

QueueBranchTaken ==
    pc # "decide"
    /\ ~(StartsWith(initial_ai_response, DIRECTIVE) /\ client /\ workspace_sid)

\* C8: the queue is that of the first key, in declaration order, that is a
\* substring of the lowercased input; an input with no key resolves to no
\* queue and no statistics lookup follows
C8_FirstKeywordWins ==
    QueueBranchTaken =>
        /\ KeyIdx # {} => target_queue_name = Str(queue_map[Min(KeyIdx)][2])
        /\ KeyIdx = {} => (target_queue_name = PyNone /\ pc = "display")
        /\ pc = "get_realtime_queue_stats" <=> (KeyIdx # {} /\ client /\ workspace_sid)
        /\ Lower(user_input) = <<"business", " ", "voice">> =>
              target_queue_name = Str(<<"Voice Global Business">>)
        /\ Lower(user_input) = <<"ts", " ", "consumer">> =>
              target_queue_name = Str(<<"Total Service Consumer">>)

\* "ts business" and "business voice" are both in the input: the earlier wins
C8_Witness ==
    /\ QueueBranchTaken
    /\ user_input = <<"ts", " ", "BUSINESS", " ", "voice">>
    /\ KeyIdx = {3, 7}
    /\ target_queue_name = Str(<<"Total Service Business">>)
    /\ pc = "get_realtime_queue_stats"

====
